---- MODULE Spec2Model ----
(***************************************************************************)
(* A model of src/main.py: the /ingest handler (archive loop, per-PDF      *)
(* normalisation result, de-duplication by invoice number, line building)  *)
(* and call_openai_normalize with its pacing gate _throttle.               *)
(*                                                                         *)
(* Money is counted in mills (1/1000 of a currency unit) and time in       *)
(* tenths of a second, so that round(x, 2) and the 0.9 s pacing interval   *)
(* are integer computations.                                               *)
(***************************************************************************)
EXTENDS Integers, Sequences, FiniteSets, TLC

(* ------------------------------ bounds --------------------------------- *)
\* uploaded archives per ingest call
MaxFiles == 2
\* archive entries per ingest call, over all its archives
MaxEntries == 2

(* --------------------------- JSON values -------------------------------- *)
\* A JSON scalar as json.loads yields it: t is its Python type, n its number
\* (an int, or a float in mills), s its text.
JInt(k) == [t |-> "int", n |-> k, s |-> ""]
JNum(m) == [t |-> "float", n |-> m, s |-> ""]
JStr(x) == [t |-> "str", n |-> 0, s |-> x]
JNull == [t |-> "null", n |-> 0, s |-> ""]

\* str.lower() on the texts of the model
Lower(x) == CASE x = "PDF" -> "pdf" [] x = "X1" -> "x1" [] OTHER -> x

\* int(str(v).replace(",", "")), with the except branch's 0: str() of a float
\* keeps its ".0", which int() rejects
ToInt(v) == IF v.t = "int" THEN v.n ELSE 0

\* float(str(v).replace(",", "")), with the except branch's 0.0; in mills
ToFloat(v) == CASE v.t = "int" -> v.n * 1000 [] v.t = "float" -> v.n [] OTHER -> 0

\* round(x, 2) of a value in mills (the inputs of the model hold no exact half cent)
Round2(m) == LET r == m % 10 IN IF r < 5 THEN m - r ELSE m - r + 10

\* (ln.get("item_code") or "").strip().lower() raises AttributeError on a
\* truthy value that is no string
CodeRaises(v) == v.t \in {"int", "float"} /\ v.n # 0

ItemCode(v) == IF v.t = "str" THEN Lower(v.s) ELSE ""

(* ------------------------------- dates ---------------------------------- *)
\* A date text "YYYY-MM-DD" by its three numbers; NoDate is the empty text.
NoDate == [y |-> 0, m |-> 0, d |-> 0]

Date(y, m, d) == [y |-> y, m |-> m, d |-> d]

\* A text that may hold a date: "iso" is a-b-c written YYYY-MM-DD, "slash" is
\* a/b/c written with a year of w digits, "none" is any other text ("" too).
IsoText(y, m, d) == [form |-> "iso", a |-> y, b |-> m, c |-> d, w |-> 4]

SlashText(a, b, c, w) == [form |-> "slash", a |-> a, b |-> b, c |-> c, w |-> w]

NoText == [form |-> "none", a |-> 0, b |-> 0, c |-> 0, w |-> 0]

IsLeap(y) == (y % 4 = 0 /\ y % 100 # 0) \/ y % 400 = 0

DaysIn(y, m) == CASE m \in {4, 6, 9, 11} -> 30
                  [] m = 2 -> (IF IsLeap(y) THEN 29 ELSE 28)
                  [] OTHER -> 31

\* what datetime accepts
ValidDate(y, m, d) == y >= 1 /\ m >= 1 /\ m <= 12 /\ d >= 1 /\ d <= DaysIn(y, m)

\* the year %y reads from two digits
Century(yy) == IF yy < 69 THEN 2000 + yy ELSE 1900 + yy

\* norm_date: the first of "%Y-%m-%d", "%m/%d/%Y", "%m/%d/%y" (and
\* "%d-%b-%Y", which none of the texts of the model fits) that parses s,
\* written back as "%Y-%m-%d"; "" when none does
norm_date(s) ==
  CASE s.form = "iso" /\ ValidDate(s.a, s.b, s.c) -> Date(s.a, s.b, s.c)
    [] s.form = "slash" /\ s.w = 4 /\ ValidDate(s.c, s.a, s.b) -> Date(s.c, s.a, s.b)
    [] s.form = "slash" /\ s.w = 2 /\ ValidDate(Century(s.c), s.a, s.b) -> Date(Century(s.c), s.a, s.b)
    [] OTHER -> NoDate

(* ------------------------------ inputs ---------------------------------- *)
L_ok == [item_code |-> JStr("X1"), quantity |-> JInt(2), unit_price |-> JNum(4996), line_total |-> JNum(9992)]
L_credit == [item_code |-> JStr("x1"), quantity |-> JInt(-1), unit_price |-> JNum(5000), line_total |-> JNum(-5000)]
L_floatq == [item_code |-> JStr("y2"), quantity |-> JNum(5000), unit_price |-> JInt(10), line_total |-> JInt(50)]
L_numcode == [item_code |-> JInt(1001), quantity |-> JInt(1), unit_price |-> JNum(5000), line_total |-> JNum(5000)]

\* the "lines" lists a normalisation result may carry
LineSeqs == {<<>>, <<L_ok>>, <<L_credit>>, <<L_floatq>>, <<L_ok, L_numcode, L_ok>>}

\* What one PDF yields once opened and sampled: ai is the value of
\* call_openai_normalize (or {} without an API key, which reads like a result
\* with no number and no lines), guess_no the value of invnum_guess and
\* guess_date that of invdate_guess.
Docs == [ai_no : {"", "A"}, guess_no : {"B"}, lines : LineSeqs,
         ai_date : {SlashText(1, 5, 24, 2)}, guess_date : {Date(2024, 2, 9)}]

NoDoc == [ai_no |-> "", guess_no |-> "", lines |-> <<>>, ai_date |-> NoText, guess_date |-> NoDate]

Exts == {"pdf", "PDF", "txt"}
Stems == <<"f1", "f2", "f3", "f4", "f5", "f6">>

(* ------------------------------- state ---------------------------------- *)
VARIABLES
  files,            \* the uploads read so far: per archive its status, namelist and entry outcomes
  pc,               \* "files" | "entries" | "done"
  names,            \* z.namelist() of the open archive
  ei,               \* position of the inner loop in names
  parsed_lines,
  invoices_rows,
  errors,
  seen_invoices,
  files_count

ivars == <<files, pc, names, ei, parsed_lines, invoices_rows, errors, seen_invoices, files_count>>

\* call_openai_normalize and _throttle
VARIABLES
  elapsed,          \* time.time() - _last_call, kept up to Saturate
  delay,
  attempt,          \* the loop variable of "for attempt in range(max_retries)"
  npc,              \* "idle" | "loop" | "ret145" | "ret148" | "ret151": the return statement reached, by its line
  result,           \* the value returned
  calls,            \* invocations begun in this process
  requests,         \* outbound requests of the current invocation
  spacing,          \* the time between the last two outbound requests of the process (-1: fewer than two)
  last_kind,        \* what the last attempt met: "none" | "ok" (a JSON object) | "nonjson" (no braces) | "429" | "exc"
  waited            \* the last time.sleep between two attempts of the invocation: its cause and length

nvars == <<elapsed, delay, attempt, npc, result, calls, requests, spacing, last_kind, waited>>

\* the end of ingest: the remote store and the response
VARIABLES
  sb,               \* whether the store client was created (SUPABASE_URL and SUPABASE_SERVICE_ROLE set)
  written,          \* the chunks the store has accepted, in order: table and row positions
  master,
  monthly

tvars == <<sb, written, master, monthly>>

\* the header guesses
VARIABLES
  text,             \* the text block of a document, as its tokens
  fname,            \* the entry name
  guess             \* what invnum_guess and invdate_guess returned for them

gvars == <<text, fname, guess>>

vars == <<ivars, nvars, tvars, gvars>>

\* f.filename of the i-th upload
ZipStems == <<"z1", "z2", "z3", "z4">>

ZipName(i) == [stem |-> ZipStems[i], ext |-> "zip"]

\* the entry names of an archive whose entries carry the suffixes exts, when
\* base entries came before it in the call
NameList(base, exts) == [i \in 1..Len(exts) |-> [stem |-> Stems[base + i], ext |-> exts[i]]]

RECURSIVE EntriesIn(_)
EntriesIn(fs) == IF fs = <<>> THEN 0 ELSE Len(Head(fs).names) + EntriesIn(Tail(fs))

\* name.lower().endswith(".pdf")
IsPdfName(name) == Lower(name.ext) = "pdf"

\* (ln.get("item_name") or "").strip(): the lines of the model carry no name
ItemName(ln) == IF "item_name" \in DOMAIN ln THEN ln.item_name ELSE ""

\* the parsed_lines entry of one line of the normalisation result
ParsedLine(ln, inv_no, inv_date, name) ==
  [invoice_number |-> inv_no,
   invoice_date |-> inv_date,
   item_code |-> ItemCode(ln.item_code),
   item_name |-> ItemName(ln),
   quantity |-> ToInt(ln.quantity),
   unit_price |-> Round2(ToFloat(ln.unit_price)),
   line_total |-> Round2(ToFloat(ln.line_total)),
   file_name |-> name]

\* The loop over ai.get("lines"): the entries appended, total_qty and total_val
\* (unrounded), up to the first line that raises.
RECURSIVE BuildLines(_, _, _, _)
BuildLines(lines, inv_no, inv_date, name) ==
  IF lines = <<>> THEN [out |-> <<>>, qty |-> 0, val |-> 0, raised |-> FALSE]
  ELSE IF CodeRaises(Head(lines).item_code) THEN [out |-> <<>>, qty |-> 0, val |-> 0, raised |-> TRUE]
  ELSE LET r == BuildLines(Tail(lines), inv_no, inv_date, name)
       IN [out |-> <<ParsedLine(Head(lines), inv_no, inv_date, name)>> \o r.out,
           qty |-> ToInt(Head(lines).quantity) + r.qty,
           val |-> ToFloat(Head(lines).line_total) + r.val,
           raised |-> r.raised]

\* a result without lines that keeps its header
Fallback_Never(doc) == FALSE

\* "if not ai or not ai.get('lines')": the heuristic header replaces the result
Fallback(doc) == doc.lines = <<>>

\* ai.get("invoice_number") or invnum_guess(text_block, name)
InvNo(doc) == IF ~Fallback(doc) /\ doc.ai_no # "" THEN doc.ai_no ELSE doc.guess_no

\* norm_date(ai.get("invoice_date") or "") or invdate_guess(text_block, name)
InvDate(doc) == IF ~Fallback(doc) /\ norm_date(doc.ai_date) # NoDate THEN norm_date(doc.ai_date) ELSE doc.guess_date

\* "if inv_no in seen_invoices"
IsDuplicate(inv_no, seen) == inv_no \in seen

\* the test with "and" for "or"
HasTotals_Both(qty, val) == qty > 0 /\ val > 0

\* "if total_qty > 0 or total_val > 0"
HasTotals(qty, val) == qty > 0 \/ val > 0

InvoiceRow(inv_no, qty, val, name) ==
  [invoice_number |-> inv_no, lines |-> qty, total_value |-> Round2(val), file_name |-> name]

IngestInit ==
  /\ files = <<>>
  /\ pc = "files"
  /\ names = <<>>
  /\ ei = 0
  /\ parsed_lines = <<>>
  /\ invoices_rows = <<>>
  /\ errors = <<>>
  /\ seen_invoices = {}
  /\ files_count = 0

\* the archive being read, with one more entry outcome and a new status
Noted(status, fault, doc) ==
  [files EXCEPT ![Len(files)] =
     [@ EXCEPT !.status = status, !.outs = Append(@, [fault |-> fault, doc |-> doc])]]

\* "for f in files": the upload cannot be read, or is no zip archive
OpenArchiveFails(what) ==
  /\ pc = "files" /\ Len(files) < MaxFiles
  /\ files' = Append(files, [status |-> "failed_open", names |-> <<>>, outs |-> <<>>])
  /\ errors' = Append(errors, [who |-> ZipName(Len(files) + 1), what |-> what])
  /\ UNCHANGED <<pc, names, ei, parsed_lines, invoices_rows, seen_invoices, files_count>>
  /\ UNCHANGED <<nvars, tvars, gvars>>

\* zipfile.ZipFile(io.BytesIO(blob)) opens; its namelist is exts long
OpenArchive(exts) ==
  /\ pc = "files" /\ Len(files) < MaxFiles
  /\ EntriesIn(files) + Len(exts) <= MaxEntries
  /\ names' = NameList(EntriesIn(files), exts)
  /\ files' = Append(files, [status |-> "reading", names |-> names', outs |-> <<>>])
  /\ pc' = "entries" /\ ei' = 1
  /\ UNCHANGED <<parsed_lines, invoices_rows, errors, seen_invoices, files_count>>
  /\ UNCHANGED <<nvars, tvars, gvars>>

AtEntry == pc = "entries" /\ ei <= Len(names)

\* "if not name.lower().endswith('.pdf'): continue"
SkipEntry ==
  /\ AtEntry /\ ~IsPdfName(names[ei])
  /\ files' = Noted("reading", "skip", NoDoc)
  /\ ei' = ei + 1
  /\ UNCHANGED <<pc, names, parsed_lines, invoices_rows, errors, seen_invoices, files_count>>
  /\ UNCHANGED <<nvars, tvars, gvars>>

\* An exception that leaves the with block: the archive's loop ends and the
\* outer handlers record it against the upload.
Abort(fault, what, doc, lines) ==
  /\ files' = Noted("failed_later", fault, doc)
  /\ errors' = Append(errors, [who |-> ZipName(Len(files)), what |-> what])
  /\ parsed_lines' = parsed_lines \o lines
  /\ pc' = "files" /\ ei' = 0 /\ names' = <<>>

\* z.read(name) raises zipfile.BadZipFile (a bad CRC-32)
ReadFails ==
  /\ AtEntry /\ IsPdfName(names[ei])
  /\ files_count' = files_count + 1
  /\ Abort("read", "not a valid zip file", NoDoc, <<>>)
  /\ UNCHANGED <<invoices_rows, seen_invoices>>
  /\ UNCHANGED <<nvars, tvars, gvars>>

\* fitz.open raises: recorded against the entry, the loop goes on
OpenPdfFails ==
  /\ AtEntry /\ IsPdfName(names[ei])
  /\ files_count' = files_count + 1
  /\ errors' = Append(errors, [who |-> names[ei], what |-> "pdf open failed"])
  /\ files' = Noted("reading", "open", NoDoc)
  /\ ei' = ei + 1
  /\ UNCHANGED <<pc, names, parsed_lines, invoices_rows, seen_invoices>>
  /\ UNCHANGED <<nvars, tvars, gvars>>

\* doc_text_sample raises
SampleFails ==
  /\ AtEntry /\ IsPdfName(names[ei])
  /\ files_count' = files_count + 1
  /\ Abort("sample", "zip read failed", NoDoc, <<>>)
  /\ UNCHANGED <<invoices_rows, seen_invoices>>
  /\ UNCHANGED <<nvars, tvars, gvars>>

\* One PDF from its normalisation result to its invoice row.
ProcessDoc(doc) ==
  /\ AtEntry /\ IsPdfName(names[ei])
  /\ files_count' = files_count + 1
  /\ LET inv_no == InvNo(doc)
         b == BuildLines(IF Fallback(doc) THEN <<>> ELSE doc.lines, inv_no, InvDate(doc), names[ei])
     IN IF IsDuplicate(inv_no, seen_invoices)
        THEN /\ files' = Noted("reading", "none", doc)
             /\ ei' = ei + 1
             /\ UNCHANGED <<pc, names, parsed_lines, invoices_rows, errors, seen_invoices>>
        ELSE /\ seen_invoices' = seen_invoices \cup {inv_no}
             /\ IF b.raised
                THEN /\ Abort("none", "zip read failed", doc, b.out)
                     /\ UNCHANGED invoices_rows
                ELSE /\ parsed_lines' = parsed_lines \o b.out
                     /\ invoices_rows' =
                          IF HasTotals(b.qty, b.val)
                          THEN Append(invoices_rows, InvoiceRow(inv_no, b.qty, b.val, names[ei]))
                          ELSE invoices_rows
                     /\ files' = Noted("reading", "none", doc)
                     /\ ei' = ei + 1
                     /\ UNCHANGED <<pc, names, errors>>
  /\ UNCHANGED <<nvars, tvars, gvars>>

\* the namelist is exhausted: the with block closes the archive
CloseArchive ==
  /\ pc = "entries" /\ ei > Len(names)
  /\ files' = [files EXCEPT ![Len(files)].status = "read"]
  /\ pc' = "files" /\ ei' = 0 /\ names' = <<>>
  /\ UNCHANGED <<parsed_lines, invoices_rows, errors, seen_invoices, files_count>>
  /\ UNCHANGED <<nvars, tvars, gvars>>

(* ------------------------------ rollups --------------------------------- *)
\* a < b for two date texts, as str compares them: digit by digit, which for
\* zero-padded numbers is number by number
DateLess(a, b) == a.y < b.y \/ (a.y = b.y /\ (a.m < b.m \/ (a.m = b.m /\ a.d < b.d)))

\* (r["invoice_date"] or "")[:7]: the text up to the month
MonthOf(dt) == [y |-> dt.y, m |-> dt.m]

\* a month for the empty text too
HasMonth_Always(dt) == TRUE

\* "if len(m)==7"
HasMonth(dt) == dt # NoDate

MonthLess(a, b) == a.y < b.y \/ (a.y = b.y /\ a.m < b.m)

\* the sum of f[lo..hi], by halves
RECURSIVE SumRange(_, _, _)
SumRange(f, lo, hi) ==
  IF lo > hi THEN 0
  ELSE IF lo = hi THEN f[lo]
  ELSE LET mid == (lo + hi) \div 2 IN SumRange(f, lo, mid) + SumRange(f, mid + 1, hi)

\* round(n / d) to the nearest integer, an exact half to the even one, d # 0
RoundDiv(n, d) ==
  LET nn == IF d < 0 THEN -n ELSE n
      dd == IF d < 0 THEN -d ELSE d
      q == nn \div dd
      r == nn % dd
  IN IF 2 * r < dd THEN q
     ELSE IF 2 * r > dd THEN q + 1
     ELSE IF q % 2 = 0 THEN q ELSE q + 1

\* the positions of the lines that open a key of "by", ascending: the keys in
\* insertion order
FirstsOf(lines) == {i \in 1..Len(lines) : \A j \in 1..(i - 1) : lines[j].item_code # lines[i].item_code}

RECURSIVE Ascending(_)
Ascending(S) == IF S = {} THEN <<>>
                ELSE LET lo == CHOOSE x \in S : \A z \in S : x <= z
                     IN <<lo>> \o Ascending(S \ {lo})

\* by[k]["qty"] and by[k]["val"]
QtyOf(lines, k) == SumRange([i \in 1..Len(lines) |-> IF lines[i].item_code = k THEN lines[i].quantity ELSE 0], 1, Len(lines))

ValOf(lines, k) == SumRange([i \in 1..Len(lines) |-> IF lines[i].item_code = k THEN lines[i].line_total ELSE 0], 1, Len(lines))

\* len(by[k]["invs"]): "if r['invoice_number']: ... add"
InvsOf(lines, k) == Cardinality({lines[i].invoice_number : i \in {j \in 1..Len(lines) : lines[j].item_code = k}} \ {""})

\* sorted(names.items(), key=count, reverse=True)[0][0]: the name seen most
\* often, the one met first among equals; "" without a name
BestName(lines, k) ==
  LET at == {i \in 1..Len(lines) : lines[i].item_code = k /\ lines[i].item_name # ""}
      count(i) == Cardinality({j \in at : lines[j].item_name = lines[i].item_name})
      opens == {i \in at : \A j \in at : j < i => lines[j].item_name # lines[i].item_name}
  IN IF at = {} THEN ""
     ELSE lines[CHOOSE i \in opens : \A j \in opens :
                  count(j) < count(i) \/ (count(j) = count(i) /\ i <= j)].item_name

DatesOf(lines, k) == {lines[i].invoice_date : i \in {j \in 1..Len(lines) : lines[j].item_code = k}} \ {NoDate}

\* by[k]["first"] and by[k]["last"]
FirstDate(lines, k) == IF DatesOf(lines, k) = {} THEN NoDate
                       ELSE CHOOSE a \in DatesOf(lines, k) : \A b \in DatesOf(lines, k) : ~DateLess(b, a)

LastDate(lines, k) == IF DatesOf(lines, k) = {} THEN NoDate
                      ELSE CHOOSE a \in DatesOf(lines, k) : \A b \in DatesOf(lines, k) : ~DateLess(a, b)

months_between(a, b) ==
  IF a = NoDate \/ b = NoDate THEN 1
  ELSE LET n == (b.y - a.y) * 12 + (b.m - a.m) + 1 IN IF n > 1 THEN n ELSE 1

\* the value sum where the quantity sum is 0
AvgPrice_ValueAtZero(val, qty) == IF qty # 0 THEN 10 * RoundDiv(val, 10 * qty) ELSE val

\* round(v["val"]/v["qty"], 2) if v["qty"] else 0.0
AvgPrice(val, qty) == IF qty # 0 THEN 10 * RoundDiv(val, 10 * qty) ELSE 0

\* one row of master; frequency_per_month in hundredths, money in mills
MasterRow(lines, k) ==
  [item_code |-> k,
   item_name |-> BestName(lines, k),
   invoices |-> InvsOf(lines, k),
   frequency_per_month |-> RoundDiv(InvsOf(lines, k) * 100, months_between(FirstDate(lines, k), LastDate(lines, k))),
   total_quantity |-> QtyOf(lines, k),
   total_value |-> Round2(ValOf(lines, k)),
   avg_price |-> AvgPrice(ValOf(lines, k), QtyOf(lines, k)),
   last_invoice_date |-> LastDate(lines, k)]

\* list.sort(key=total_value, reverse=True) is stable: r goes behind the rows
\* that are not below it
InsertByValue(rows, r) ==
  LET ahead == SelectSeq(rows, LAMBDA x : x.total_value >= r.total_value)
      behind == SelectSeq(rows, LAMBDA x : x.total_value < r.total_value)
  IN ahead \o <<r>> \o behind

RECURSIVE SortByValue(_)
SortByValue(rows) == IF rows = <<>> THEN <<>>
                     ELSE InsertByValue(SortByValue(SubSeq(rows, 1, Len(rows) - 1)), rows[Len(rows)])

Master(lines) ==
  LET keys == Ascending(FirstsOf(lines))
  IN SortByValue([j \in 1..Len(keys) |-> MasterRow(lines, lines[keys[j]].item_code)])

\* sorted(monthly_q.keys())
RECURSIVE SortedMonths(_)
SortedMonths(S) == IF S = {} THEN <<>>
                   ELSE LET lo == CHOOSE x \in S : \A z \in S : ~MonthLess(z, x)
                        IN <<lo>> \o SortedMonths(S \ {lo})

Months(lines) == SortedMonths({MonthOf(lines[i].invoice_date) : i \in {j \in 1..Len(lines) : HasMonth(lines[j].invoice_date)}})

\* monthly_q[m], and round(monthly_v[m], 2)
MonthQty(lines, mo) ==
  SumRange([i \in 1..Len(lines) |-> IF HasMonth(lines[i].invoice_date) /\ MonthOf(lines[i].invoice_date) = mo
                                     THEN lines[i].quantity ELSE 0], 1, Len(lines))

MonthVal(lines, mo) ==
  Round2(SumRange([i \in 1..Len(lines) |-> IF HasMonth(lines[i].invoice_date) /\ MonthOf(lines[i].invoice_date) = mo
                                            THEN lines[i].line_total ELSE 0], 1, Len(lines)))

\* None, or a number in thousandths
Null == [null |-> TRUE, v |-> 0]

Num(v) == [null |-> FALSE, v |-> v]

\* a zero in place of None after a month of zero
MomPct_ZeroAfterZero(x, prev) == IF prev = 0 THEN Num(0) ELSE Num(RoundDiv((x - prev) * 1000, prev))

\* "if prev not in (None, 0): round((x - prev) / prev, 3)"
MomPct(x, prev) == IF prev = 0 THEN Null ELSE Num(RoundDiv((x - prev) * 1000, prev))

Monthly(lines) ==
  LET ms == Months(lines)
  IN [j \in 1..Len(ms) |->
        [invoice_month |-> ms[j],
         total_quantity |-> MonthQty(lines, ms[j]),
         total_value |-> MonthVal(lines, ms[j]),
         qty_mom_pct |-> IF j = 1 THEN Null ELSE MomPct(MonthQty(lines, ms[j]), MonthQty(lines, ms[j - 1])),
         val_mom_pct |-> IF j = 1 THEN Null ELSE MomPct(MonthVal(lines, ms[j]), MonthVal(lines, ms[j - 1]))]]

\* the uploads are exhausted (File(...) requires one at least): the response is built
\* With no store client both writes return at once ("if not (sb and rows):
\* return") and the rollups and the response follow.
Respond ==
  /\ pc = "files" /\ Len(files) >= 1
  /\ ~sb
  /\ pc' = "done"
  /\ master' = Master(parsed_lines)
  /\ monthly' = Monthly(parsed_lines)
  /\ UNCHANGED <<files, names, ei, parsed_lines, invoices_rows, errors, seen_invoices, files_count>>
  /\ UNCHANGED <<sb, written>>
  /\ UNCHANGED <<nvars, gvars>>

ExtLists == UNION {[1..n -> Exts] : n \in 0..MaxEntries}

(* ------------------------- the remote store ----------------------------- *)
\* chunk of sb_upsert_chunked and of sb_insert_chunked, as ingest passes them
UpsertChunk == 500
InsertChunk == 1000

\* lines of a varied batch
MaxLines == 3

NameA == [stem |-> "f1", ext |-> "pdf"]
NameB == [stem |-> "f2", ext |-> "pdf"]
NameC == [stem |-> "f3", ext |-> "pdf"]
NameD == [stem |-> "f4", ext |-> "pdf"]

\* parsed_lines entries as the archive loop leaves them
R_a1 == [invoice_number |-> "A", invoice_date |-> Date(2024, 1, 5), item_code |-> "x1", item_name |-> "n1",
         quantity |-> 2, unit_price |-> 5000, line_total |-> 10000, file_name |-> NameA]
R_a2 == [invoice_number |-> "A", invoice_date |-> Date(2024, 1, 5), item_code |-> "x1", item_name |-> "n2",
         quantity |-> -2, unit_price |-> 4990, line_total |-> -9980, file_name |-> NameA]
R_b == [invoice_number |-> "B", invoice_date |-> Date(2024, 2, 9), item_code |-> "x1", item_name |-> "n2",
        quantity |-> 3, unit_price |-> 6670, line_total |-> 20000, file_name |-> NameB]
R_c == [invoice_number |-> "C", invoice_date |-> NoDate, item_code |-> "y2", item_name |-> "",
        quantity |-> 3, unit_price |-> 3330, line_total |-> 10000, file_name |-> NameC]
R_d == [invoice_number |-> "D", invoice_date |-> Date(2023, 12, 30), item_code |-> "y2", item_name |-> "n3",
        quantity |-> 0, unit_price |-> 0, line_total |-> 0, file_name |-> NameD]

RLines == {R_a1, R_a2, R_b, R_c, R_d}

\* the lines of one invoice follow one another: a number seen before is skipped
OneRunPerInvoice(lines) ==
  \A i, j, k \in 1..Len(lines) :
    (i < j /\ j < k /\ lines[i].invoice_number = lines[k].invoice_number)
      => lines[j].invoice_number = lines[i].invoice_number

\* the invoices_rows the archive loop builds along with these parsed_lines
RowsFor(lines) ==
  LET opens == Ascending({i \in 1..Len(lines) : \A j \in 1..(i - 1) : lines[j].invoice_number # lines[i].invoice_number})
      qty(n) == SumRange([i \in 1..Len(lines) |-> IF lines[i].invoice_number = n THEN lines[i].quantity ELSE 0], 1, Len(lines))
      val(n) == SumRange([i \in 1..Len(lines) |-> IF lines[i].invoice_number = n THEN lines[i].line_total ELSE 0], 1, Len(lines))
      kept == SelectSeq(opens, LAMBDA i : HasTotals(qty(lines[i].invoice_number), val(lines[i].invoice_number)))
  IN [j \in 1..Len(kept) |->
        InvoiceRow(lines[kept[j]].invoice_number, qty(lines[kept[j]].invoice_number),
                   val(lines[kept[j]].invoice_number), lines[kept[j]].file_name)]

VariedBatches ==
  {[lines |-> l, rows |-> RowsFor(l)] :
     l \in {x \in UNION {[1..n -> RLines] : n \in 0..MaxLines} : OneRunPerInvoice(x)}}

\* A long batch: n lines, per of them to an invoice, each invoice with a row.
BulkLine(i, per) ==
  [invoice_number |-> ToString((i - 1) \div per + 1), invoice_date |-> Date(2024, 3, 1), item_code |-> "x1",
   item_name |-> "n1", quantity |-> 1, unit_price |-> 2500, line_total |-> 2500,
   file_name |-> [stem |-> ToString((i - 1) \div per + 1), ext |-> "pdf"]]

BulkBatch(n, per) ==
  [lines |-> [i \in 1..n |-> BulkLine(i, per)],
   rows |-> [j \in 1..(n \div per) |->
               InvoiceRow(ToString(j), per, per * 2500, [stem |-> ToString(j), ext |-> "pdf"])]]

BulkBatches == {BulkBatch(501, 1), BulkBatch(1000, 2), BulkBatch(1001, 1)}

\* no store client, nothing written, no rollups yet
TailIdle ==
  /\ sb = FALSE
  /\ written = <<>>
  /\ master = <<>>
  /\ monthly = <<>>

\* the chunks written to a table so far
ChunksOf(table) == SelectSeq(written, LAMBDA c : c.table = table)

\* "for i in range(0, len(rows), chunk)": where the next batch starts
NextStart(table) == IF ChunksOf(table) = <<>> THEN 1 ELSE ChunksOf(table)[Len(ChunksOf(table))].hi + 1

\* a batch one row longer
BatchEnd_OneMore(lo, chunk, n) == IF lo + chunk < n THEN lo + chunk ELSE n

\* rows[i:i+chunk]: the last position of the batch that starts at lo
BatchEnd(lo, chunk, n) == IF lo + chunk - 1 < n THEN lo + chunk - 1 ELSE n

\* "if not (sb and rows): return", or the range is exhausted
NothingToWrite(table, rows) == ~sb \/ rows = <<>> \/ NextStart(table) > Len(rows)

\* One batch of sb_upsert_chunked: execute() returns, or raises, and then the
\* exception leaves ingest, which has no handler around its writes.
UpsertBatch(ok) ==
  /\ pc = "upsert" /\ ~NothingToWrite("invoices", invoices_rows)
  /\ IF ok
     THEN /\ written' = Append(written, [table |-> "invoices", lo |-> NextStart("invoices"),
                                         hi |-> BatchEnd(NextStart("invoices"), UpsertChunk, Len(invoices_rows))])
          /\ UNCHANGED pc
     ELSE pc' = "raised" /\ UNCHANGED written
  /\ UNCHANGED <<files, names, ei, parsed_lines, invoices_rows, errors, seen_invoices, files_count>>
  /\ UNCHANGED <<sb, master, monthly>>
  /\ UNCHANGED <<nvars, gvars>>

UpsertReturns ==
  /\ pc = "upsert" /\ NothingToWrite("invoices", invoices_rows)
  /\ pc' = "insert"
  /\ UNCHANGED <<files, names, ei, parsed_lines, invoices_rows, errors, seen_invoices, files_count>>
  /\ UNCHANGED <<nvars, tvars, gvars>>

\* one batch of sb_insert_chunked
InsertBatch(ok) ==
  /\ pc = "insert" /\ ~NothingToWrite("items", parsed_lines)
  /\ IF ok
     THEN /\ written' = Append(written, [table |-> "items", lo |-> NextStart("items"),
                                         hi |-> BatchEnd(NextStart("items"), InsertChunk, Len(parsed_lines))])
          /\ UNCHANGED pc
     ELSE pc' = "raised" /\ UNCHANGED written
  /\ UNCHANGED <<files, names, ei, parsed_lines, invoices_rows, errors, seen_invoices, files_count>>
  /\ UNCHANGED <<sb, master, monthly>>
  /\ UNCHANGED <<nvars, gvars>>

\* sb_insert_chunked returns: the rollups are built and the response returned
Reply ==
  /\ pc = "insert" /\ NothingToWrite("items", parsed_lines)
  /\ pc' = "done"
  /\ master' = Master(parsed_lines)
  /\ monthly' = Monthly(parsed_lines)
  /\ UNCHANGED <<files, names, ei, parsed_lines, invoices_rows, errors, seen_invoices, files_count>>
  /\ UNCHANGED <<sb, written>>
  /\ UNCHANGED <<nvars, gvars>>


(* --------------------------- header guesses ----------------------------- *)
\* tokens of one text block
MaxTokens == 3

\* A text block as its tokens, which white space separates: k is what the
\* token is, s its text and dt the date text it holds.
T_digits == [k |-> "digits", s |-> "123456-01", dt |-> NoText]
T_label == [k |-> "label", s |-> "INVOICE #", dt |-> NoText]
T_code == [k |-> "code", s |-> "AB-1234", dt |-> NoText]
T_short == [k |-> "short", s |-> "A12", dt |-> NoText]
T_iso == [k |-> "iso", s |-> "2024-03-05", dt |-> IsoText(2024, 3, 5)]
T_slash == [k |-> "slash", s |-> "01/07/2024", dt |-> SlashText(1, 7, 2024, 4)]
T_slash_dmy == [k |-> "slash", s |-> "31/12/2024", dt |-> SlashText(31, 12, 2024, 4)]
T_slash_yy == [k |-> "slash", s |-> "02/29/24", dt |-> SlashText(2, 29, 24, 2)]

Tokens == {T_digits, T_label, T_code, T_short, T_iso, T_slash, T_slash_dmy, T_slash_yy}

Texts == UNION {[1..n -> Tokens] : n \in 0..MaxTokens}

\* entry names: directory, base name without extension, extension, and the
\* date digits of a "_20YYMMDD_" in the base name
F_plain == [dir |-> "", stem |-> "scan7", ext |-> "pdf", stamp |-> NoDate]
F_stamped == [dir |-> "in", stem |-> "inv_20240418_a", ext |-> "pdf", stamp |-> Date(2024, 4, 18)]
F_stamped_odd == [dir |-> "", stem |-> "x_20241345_", ext |-> "PDF", stamp |-> Date(2024, 13, 45)]

Fnames == {F_plain, F_stamped, F_stamped_odd}

\* What ([A-Z0-9\-]{6,})\b takes, case ignored, at the start of a token: six
\* characters or more of letters, digits and hyphens; "" when there are fewer.
CodeRun(tok) == IF tok.k \in {"digits", "code", "iso"} THEN tok.s ELSE ""

\* re.search(r"\bINV(?:OICE)?\s*#?\s*([A-Z0-9\-]{6,})\b", text, re.I): the
\* group of the leftmost match, "" without a match
LabelMatch(t) ==
  LET at == {i \in 1..(Len(t) - 1) : t[i].k = "label" /\ CodeRun(t[i + 1]) # ""}
  IN IF at = {} THEN "" ELSE CodeRun(t[(CHOOSE i \in at : \A j \in at : i <= j) + 1])

\* re.search(r"\b(\d{6,9}-\d{2})\b", text)
DigitMatch(t) ==
  LET at == {i \in 1..Len(t) : t[i].k = "digits"}
  IN IF at = {} THEN "" ELSE t[CHOOSE i \in at : \A j \in at : i <= j].s

\* os.path.splitext(os.path.basename(fname))[0]
BaseStem(f) == f.stem

invnum_guess(t, f) ==
  IF LabelMatch(t) # "" THEN LabelMatch(t)
  ELSE IF DigitMatch(t) # "" THEN DigitMatch(t)
  ELSE BaseStem(f)

\* the leftmost token of a kind, as a one-element sequence; <<>> without one
Leftmost(t, kind) ==
  LET at == {i \in 1..Len(t) : t[i].k = kind}
  IN IF at = {} THEN <<>> ELSE <<t[CHOOSE i \in at : \A j \in at : i <= j]>>

\* m.group(1) of (\d{4}-\d{2}-\d{2}): the text as it stands
AsWritten(dt) == Date(dt.a, dt.b, dt.c)

invdate_guess(t, f) ==
  IF Leftmost(t, "iso") # <<>> THEN AsWritten(Leftmost(t, "iso")[1].dt)
  ELSE IF Leftmost(t, "slash") # <<>> THEN norm_date(Leftmost(t, "slash")[1].dt)
  ELSE f.stamp

NoGuess == [no_set |-> FALSE, no |-> "", date_set |-> FALSE, date |-> NoDate]

GuessIdle == text = <<>> /\ fname = F_plain /\ guess = NoGuess

GuessInit == text \in Texts /\ fname \in Fnames /\ guess = NoGuess

GuessNumber ==
  /\ ~guess.no_set
  /\ guess' = [guess EXCEPT !.no_set = TRUE, !.no = invnum_guess(text, fname)]
  /\ UNCHANGED <<text, fname>>
  /\ UNCHANGED <<ivars, nvars, tvars>>

GuessDate ==
  /\ ~guess.date_set
  /\ guess' = [guess EXCEPT !.date_set = TRUE, !.date = invdate_guess(text, fname)]
  /\ UNCHANGED <<text, fname>>
  /\ UNCHANGED <<ivars, nvars, tvars>>

(* ------------------------ call_openai_normalize ------------------------- *)
max_retries == 5
min_interval == 9
InitialDelay == 20
MaxDelay == 300

\* invocations of call_openai_normalize in one process
MaxCalls == 2

\* Only time.time() - _last_call decides what _throttle does, and every
\* value above min_interval alike: the model keeps the difference up to there.
Saturate(t) == IF t > min_interval THEN min_interval + 1 ELSE t

\* how long a request takes, and the time between two invocations
Durations == {0, 3}
Gaps == {0, 4}

\* The Retry-After header of a 429: absent, seconds (here in tenths), or a
\* text float() rejects, such as an HTTP date.
RetryAfters == {"absent", "0", "35", "date"}
RetryAfterValue(ra) == CASE ra = "0" -> 0 [] ra = "35" -> 350 [] OTHER -> 0

\* the objects json.loads may yield
D_full == [invoice_number |-> "A", invoice_date |-> "2024-01-05", supplier |-> "S", lines |-> <<L_ok>>]
D_partial == [invoice_number |-> "A", note |-> "n"]
D_nolines == [invoice_number |-> "", invoice_date |-> "", supplier |-> "", lines |-> <<>>]

\* The message content: whether it holds a "{" and a "}", and what the text
\* from the first "{" to the last "}" decodes to ("garbage": json.loads raises).
Contents ==
  {[open |-> TRUE, close |-> TRUE, body |-> "object", data |-> d] : d \in {D_full, D_partial, D_nolines}}
  \cup {[open |-> TRUE, close |-> TRUE, body |-> "garbage", data |-> D_nolines],
        [open |-> FALSE, close |-> FALSE, body |-> "garbage", data |-> D_nolines],
        [open |-> TRUE, close |-> FALSE, body |-> "garbage", data |-> D_nolines]}

NoContent == [open |-> FALSE, close |-> FALSE, body |-> "garbage", data |-> D_nolines]

\* what one attempt meets
Responses ==
  {[kind |-> "ok", ra |-> "absent", content |-> c] : c \in Contents}
  \cup {[kind |-> "429", ra |-> ra, content |-> NoContent] : ra \in RetryAfters}
  \cup {[kind |-> k, ra |-> "absent", content |-> NoContent] : k \in {"http_error", "network", "bad_body"}}

\* a gate that never sleeps
Throttle_NoSleep(since) == 0

\* _throttle: "wait = _last_call + min_interval - now", slept when positive;
\* the time it holds the caller, since is time.time() - _last_call on entry
Throttle(since) == IF min_interval - since > 0 THEN min_interval - since ELSE 0

\* doubling without the cap
Backoff_Uncapped(d) == d * 2

\* min(delay * 2, 30)
Backoff(d) == IF d * 2 < MaxDelay THEN d * 2 ELSE MaxDelay

\* dict.setdefault
SetDefault(d, k, v) == IF k \in DOMAIN d THEN d ELSE [x \in DOMAIN d \cup {k} |-> IF x = k THEN v ELSE d[x]]

\* the setdefault of "lines" left out
WithDefaults_NoLines(d) ==
  SetDefault(SetDefault(SetDefault(d, "invoice_number", ""), "invoice_date", ""), "supplier", "")

WithDefaults(d) ==
  SetDefault(SetDefault(SetDefault(SetDefault(d, "invoice_number", ""), "invoice_date", ""), "supplier", ""), "lines", <<>>)

\* content[start:end+1] if both braces are found, else "{}"; then json.loads
Decode(c) == IF c.open /\ c.close
             THEN [raises |-> c.body # "object", data |-> c.data]
             ELSE [raises |-> FALSE, data |-> <<>>]

EmptyResult == [invoice_number |-> "", invoice_date |-> "", supplier |-> "", lines |-> <<>>]

ErrorResult(e) == [invoice_number |-> "", invoice_date |-> "", supplier |-> "", lines |-> <<>>, error |-> e]

\* the exception an attempt raises inside the try block, "" when it raises none
Raised(r) ==
  CASE r.kind = "network" -> "ConnectError"
    [] r.kind = "http_error" -> "HTTPStatusError"
    [] r.kind = "bad_body" -> "KeyError"
    [] r.kind = "429" /\ r.ra = "date" -> "ValueError"
    [] r.kind = "ok" /\ Decode(r.content).raises -> "JSONDecodeError"
    [] OTHER -> ""

\* "wait_s = float(ra) if ra else delay"
WaitAfter429(ra, d) == IF ra = "absent" THEN d ELSE RetryAfterValue(ra)

\* the except branch: what is returned on the last attempt
OnLastException(e) == [npc |-> "ret148", result |-> ErrorResult(e)]

\* the statement after the loop
AfterLoop == [npc |-> "ret151", result |-> EmptyResult]

\* a rate-limit signal that does not count against the budget
LoopGoesOn_Uncounted(a) == a < max_retries

\* the loop goes on while range(max_retries) lasts
LoopGoesOn(a) == a + 1 < max_retries

\* no time.sleep between attempts yet
NoWait == [why |-> "none", ra |-> "absent", len |-> 0]

NormInit ==
  /\ waited = NoWait
  /\ elapsed = Saturate(min_interval + 1)
  /\ delay = InitialDelay
  /\ attempt = 0
  /\ npc = "idle"
  /\ result = EmptyResult
  /\ calls = 0
  /\ requests = 0
  /\ spacing = -1
  /\ last_kind = "none"

\* call_openai_normalize is entered, gap after the last invocation returned
Call(gap) ==
  /\ npc # "loop" /\ calls < MaxCalls
  /\ calls' = calls + 1
  /\ elapsed' = Saturate(elapsed + gap)
  /\ delay' = InitialDelay
  /\ attempt' = 0
  /\ requests' = 0
  /\ last_kind' = "none"
  /\ result' = EmptyResult
  /\ npc' = "loop"
  /\ waited' = NoWait
  /\ UNCHANGED spacing
  /\ UNCHANGED <<ivars, tvars, gvars>>

\* One iteration of the retry loop: the pacing gate, the request, which takes
\* dur and meets r, and what the iteration does about it.
Attempt(r, dur) ==
  /\ npc = "loop"
  /\ LET held == Throttle(elapsed)
         e == Raised(r)
         \* time.sleep of this iteration after the response
         slept == IF e # "" THEN (IF attempt = max_retries - 1 THEN 0 ELSE delay)
                  ELSE IF r.kind = "429" THEN WaitAfter429(r.ra, delay) ELSE 0
     IN /\ spacing' = IF requests = 0 /\ calls = 1 THEN -1 ELSE Saturate(elapsed + held)
        /\ elapsed' = Saturate(dur + slept)
        /\ requests' = requests + 1
        /\ waited' = IF e # "" THEN (IF attempt = max_retries - 1 THEN waited
                                     ELSE [why |-> "except", ra |-> r.ra, len |-> slept])
                      ELSE IF r.kind = "429"
                      THEN [why |-> IF r.ra = "absent" THEN "backoff" ELSE "retry_after", ra |-> r.ra, len |-> slept]
                      ELSE waited
        /\ IF e # ""
           THEN /\ last_kind' = "exc"
                /\ IF attempt = max_retries - 1
                   THEN /\ npc' = OnLastException(e).npc
                        /\ result' = OnLastException(e).result
                        /\ UNCHANGED <<delay, attempt>>
                   ELSE /\ delay' = Backoff(delay)
                        /\ attempt' = attempt + 1
                        /\ UNCHANGED <<npc, result>>
           ELSE IF r.kind = "429"
           THEN /\ last_kind' = "429"
                /\ delay' = Backoff(delay)
                /\ IF LoopGoesOn(attempt)
                   THEN attempt' = attempt + 1 /\ UNCHANGED <<npc, result>>
                   ELSE /\ npc' = AfterLoop.npc
                        /\ result' = AfterLoop.result
                        /\ UNCHANGED attempt
           ELSE /\ last_kind' = IF r.content.open /\ r.content.close THEN "ok" ELSE "nonjson"
                /\ npc' = "ret145"
                /\ result' = WithDefaults(Decode(r.content).data)
                /\ UNCHANGED <<delay, attempt>>
  /\ UNCHANGED calls
  /\ UNCHANGED <<ivars, tvars, gvars>>

Init == IngestInit /\ NormInit /\ TailIdle /\ GuessIdle

\* one ingest call
Next ==
  \/ \E what \in {"not a valid zip file", "zip read failed"} : OpenArchiveFails(what)
  \/ \E exts \in ExtLists : OpenArchive(exts)
  \/ SkipEntry
  \/ ReadFails
  \/ OpenPdfFails
  \/ SampleFails
  \/ \E doc \in Docs : ProcessDoc(doc)
  \/ CloseArchive
  \/ Respond

Spec == Init /\ [][Next]_vars

\* the invocations of call_openai_normalize of one process
NormNext ==
  \/ \E gap \in Gaps : Call(gap)
  \/ \E r \in Responses, dur \in Durations : Attempt(r, dur)

NormSpec == Init /\ [][NormNext]_vars

\* an invocation in its loop goes on to its next attempt: the loop body always returns
FairNormSpec == NormSpec /\ WF_vars(\E r \in Responses, dur \in Durations : Attempt(r, dur))

\* The end of ingest, from the first write on: the archive loop has left
\* parsed_lines and invoices_rows (its other variables play no part here).
TailInit ==
  /\ pc = "upsert"
  /\ files = <<>> /\ names = <<>> /\ ei = 0
  /\ errors = <<>> /\ seen_invoices = {} /\ files_count = 0
  /\ sb \in BOOLEAN
  /\ \E b \in VariedBatches \cup BulkBatches : parsed_lines = b.lines /\ invoices_rows = b.rows
  /\ written = <<>> /\ master = <<>> /\ monthly = <<>>
  /\ NormInit /\ GuessIdle

TailNext ==
  \/ \E ok \in BOOLEAN : UpsertBatch(ok)
  \/ UpsertReturns
  \/ \E ok \in BOOLEAN : InsertBatch(ok)
  \/ Reply

TailSpec == TailInit /\ [][TailNext]_vars

\* invnum_guess and invdate_guess over the texts and names of the model
GuessNext == GuessNumber \/ GuessDate

\* the rest of the program stands still while the two guesses are taken
GuessStart == IngestInit /\ NormInit /\ TailIdle /\ GuessInit

GuessSpec == GuessStart /\ [][GuessNext]_vars

(* ------------------- reading the uploads read so far -------------------- *)
\* the entries the inner loop has reached, as <<archive, entry>>
Pos == {<<a, i>> : a \in 1..MaxFiles + 1, i \in 1..MaxEntries + 1} \cap
       {p \in (1..Len(files)) \X (1..MaxEntries + 1) : p[2] <= Len(files[p[1]].outs)}

Out(p) == files[p[1]].outs[p[2]]

NameOf(p) == files[p[1]].names[p[2]]

Before(p, q) == p[1] < q[1] \/ (p[1] = q[1] /\ p[2] < q[2])

\* the entry got as far as an invoice number
Yields(p) == Out(p).fault = "none"

NumberOf(p) == IF Out(p).doc.lines # <<>> /\ Out(p).doc.ai_no # "" THEN Out(p).doc.ai_no ELSE Out(p).doc.guess_no

FirstOf(p) == Yields(p) /\ \A q \in Pos : (Yields(q) /\ Before(q, p)) => NumberOf(q) # NumberOf(p)

Encountered == {NumberOf(p) : p \in {q \in Pos : Yields(q)}}

LinesFrom(p) == SelectSeq(parsed_lines, LAMBDA r : r.file_name = NameOf(p))

RowsOf(n) == {i \in 1..Len(invoices_rows) : invoices_rows[i].invoice_number = n}

Abs(x) == IF x < 0 THEN -x ELSE x

Max(x, y) == IF x < y THEN y ELSE x

(* ------------------------------- claims --------------------------------- *)

\* C1 (as claimed): no two invoices_rows entries share an invoice_number, and
\* when several PDFs yield one invoice number, parsed_lines holds every line
\* item of the first of them and no line item of a later one.
C1_FirstSeenWins ==
  /\ \A i, j \in 1..Len(invoices_rows) :
       i # j => invoices_rows[i].invoice_number # invoices_rows[j].invoice_number
  /\ \A p, q \in Pos :
       (FirstOf(p) /\ Yields(q) /\ Before(p, q) /\ NumberOf(p) = NumberOf(q))
         => /\ Len(LinesFrom(p)) = Len(Out(p).doc.lines)
            /\ LinesFrom(q) = <<>>

\* the first line of a result that the line loop cannot build, if any
Unbuildable(lines) == \E k \in 1..Len(lines) : lines[k].item_code.t \in {"int", "float"} /\ lines[k].item_code.n # 0

RECURSIVE SumQty(_)
SumQty(lines) == IF lines = <<>> THEN 0
                 ELSE (IF Head(lines).quantity.t = "int" THEN Head(lines).quantity.n ELSE 0) + SumQty(Tail(lines))

RECURSIVE SumVal(_)
SumVal(lines) == IF lines = <<>> THEN 0
                 ELSE (CASE Head(lines).line_total.t = "int" -> 1000 * Head(lines).line_total.n
                         [] Head(lines).line_total.t = "float" -> Head(lines).line_total.n
                         [] OTHER -> 0) + SumVal(Tail(lines))

C3_LineItemInvariant ==
  \A k \in 1..Len(parsed_lines) :
    LET r == parsed_lines[k]
    IN /\ r.quantity > 0
       /\ 4 * Abs(r.quantity * r.unit_price - r.line_total) <= Max(Abs(r.line_total), 1000)

\* an entry with a .pdf suffix that could not be read from the archive or
\* opened as a PDF
Unopenable(p) == Out(p).fault \in {"read", "open"}

PdfEntries == {p \in (1..Len(files)) \X (1..MaxEntries + 1) :
                 /\ p[2] <= Len(files[p[1]].names)
                 /\ files[p[1]].names[p[2]].ext \in {"pdf", "PDF"}}

ErrorsNaming(name) == {k \in 1..Len(errors) : errors[k].who = name}

\* C8 (as claimed): in a call with PDF entries that cannot be opened, errors
\* holds exactly one entry per such PDF, naming it; files_processed counts
\* every entry with a .pdf suffix in any case and no other entry; and every
\* openable PDF of the same archive, before or after, contributes its line items.
C8_UnopenablePdfIsLocal ==
  (pc = "done" /\ \E p \in Pos : Unopenable(p)) =>
    /\ \A p \in Pos : Unopenable(p) => Cardinality(ErrorsNaming(NameOf(p))) = 1
    /\ files_count = Cardinality(PdfEntries)
    /\ \A p \in PdfEntries :
         (\E q \in Pos : q[1] = p[1] /\ Unopenable(q)) =>
           /\ p \in Pos
           /\ (FirstOf(p) => Len(LinesFrom(p)) = Len(Out(p).doc.lines))

\* the archives whose reading failed, at open or later
FailedArchives == {a \in 1..Len(files) : files[a].status \in {"failed_open", "failed_later"}}

NamesIn(a) == {files[a].names[i] : i \in 1..Len(files[a].names)}

\* C9 (as claimed): an archive whose reading fails, at open or later, has
\* exactly one error string and contributes nothing to parsed_lines and
\* invoices_rows (and so to the rollups built from them).
C9_FailedArchiveContributesNothing ==
  pc = "done" =>
    \A a \in FailedArchives :
      /\ Cardinality(ErrorsNaming(ZipName(a))) = 1
      /\ \A k \in 1..Len(parsed_lines) : parsed_lines[k].file_name \notin NamesIn(a)
      /\ \A k \in 1..Len(invoices_rows) : invoices_rows[k].file_name \notin NamesIn(a)

\* C10 (as claimed): a failure while one PDF entry is processed never stops
\* the later PDF entries of its archive from being processed, and every
\* document that is parsed contributes its lines.
C10_FailureIsPerDocument ==
  pc = "done" =>
    /\ \A p \in PdfEntries : p \in Pos
    /\ \A p \in Pos : (FirstOf(p) /\ ~Unbuildable(Out(p).doc.lines))
                         => Len(LinesFrom(p)) = Len(Out(p).doc.lines)

Returned == {"ret145", "ret148", "ret151"}

\* C4: whatever the attempts meet, call_openai_normalize returns and does not
\* raise; what it returns has the keys invoice_number, invoice_date, supplier
\* and lines; and lines is empty when it returns because of failure (the retry
\* budget is spent, or the content held no JSON).
C4_AlwaysAValidStructure ==
  /\ npc \in {"idle", "loop"} \cup Returned
  /\ npc \in Returned =>
       /\ {"invoice_number", "invoice_date", "supplier", "lines"} \subseteq DOMAIN result
       /\ (npc \in {"ret148", "ret151"} \/ last_kind = "nonjson") => result["lines"] = <<>>

\* C4 witness: an invocation whose every attempt raised has returned
C4_Witness == npc = "ret148" /\ requests = max_retries /\ last_kind = "exc"

\* C5 (as claimed): when call_openai_normalize gives up with its retry budget
\* spent, the structure it returns records the last error, whether the last
\* attempt met a rate-limit signal or raised.
C5_LastErrorRecorded ==
  (npc \in Returned /\ last_kind \in {"429", "exc"}) => "error" \in DOMAIN result

\* C6: one invocation issues at most max_retries requests, issues none after
\* the attempt that met a decodable JSON object, and leaves its loop.
C6_RetryBudget ==
  /\ [](requests <= max_retries)
  /\ [](last_kind = "ok" => npc = "ret145")
  /\ [][(npc \in Returned) => (requests' = requests \/ calls' = calls + 1)]_vars
  /\ [](npc = "loop" => <>(npc \in Returned))

\* C6 witness: an invocation has spent its whole budget and returned
C6_Witness == npc \in Returned /\ requests = max_retries

\* C7: any two consecutive outbound requests of the process are at least
\* min_interval apart, retries of one invocation and the last request of one
\* invocation and the first of the next alike.
C7_MinSpacing == spacing = -1 \/ spacing >= min_interval

\* C7 witness: the first request of a second invocation, and a retry, each
\* held back to min_interval after the request before it
C7_Witness == spacing = min_interval /\ ((calls = 2 /\ requests = 1) \/ requests = 2)

RECURSIVE Pow2(_)
Pow2(n) == IF n = 0 THEN 1 ELSE 2 * Pow2(n - 1)

Min(x, y) == IF x < y THEN x ELSE y

\* the seconds a numeric Retry-After header asks for, in tenths
HintOf(ra) == CASE ra = "0" -> 0 [] ra = "35" -> 350 [] OTHER -> -1

\* C15 (as claimed): after a rate-limit signal the wait is the Retry-After
\* value when the header is present and the current backoff delay otherwise;
\* the delay starts at 2 s, doubles after every failed attempt and never
\* exceeds 30 s; and every wait performed is at most 30 s.
C15_EveryWaitBounded ==
  /\ delay <= MaxDelay
  /\ npc = "loop" => delay = Min(InitialDelay * Pow2(attempt), MaxDelay)
  /\ waited.why = "retry_after" => waited.len = HintOf(waited.ra)
  /\ (waited.why = "backoff" /\ npc = "loop") => waited.len = Min(InitialDelay * Pow2(attempt - 1), MaxDelay)
  /\ waited.len <= MaxDelay

\* C15 (amended): the backoff delay starts at 2 s, doubles after every failed
\* attempt (rate-limit signal or exception) and never exceeds 30 s; a wait
\* after a rate-limit signal is the Retry-After value when the header holds a
\* number, and that value may exceed 30 s; every other wait (no header, a
\* header float() rejects, an exception) is the delay before its doubling and
\* so at most 30 s.
C15_BackoffBounded ==
  /\ InitialDelay <= delay /\ delay <= MaxDelay
  /\ npc = "loop" => delay = Min(InitialDelay * Pow2(attempt), MaxDelay)
  /\ waited.why = "retry_after" => waited.len = HintOf(waited.ra) /\ waited.len >= 0
  /\ waited.why \in {"backoff", "except"}
       => /\ waited.len <= MaxDelay
          /\ npc = "loop" => waited.len = Min(InitialDelay * Pow2(attempt - 1), MaxDelay)

\* C15 witness: the delay has reached its cap, and the last wait was a
\* Retry-After value above it
C15_Witness == delay = MaxDelay /\ waited.why = "retry_after" /\ waited.len > MaxDelay

\* C11 (as claimed): a failing write to the remote store is caught, and ingest
\* never fails hard once the archives have been read: no exception leaves it.
C11_StoreFailureIsCaught == pc # "raised"

\* C12 (as claimed): invnum_guess returns the ######-## match when the text
\* holds one, else the group of the "INVOICE #" label pattern when that
\* matches, else the base name of the file without its extension.
C12_DigitPatternFirst ==
  guess.no_set =>
    guess.no =
      IF \E i \in 1..Len(text) : text[i].k = "digits"
      THEN text[CHOOSE i \in 1..Len(text) : text[i].k = "digits" /\ \A j \in 1..(i - 1) : text[j].k # "digits"].s
      ELSE IF \E i \in 1..(Len(text) - 1) : text[i].k = "label" /\ text[i + 1].k \in {"code", "iso"}
      THEN text[(CHOOSE i \in 1..(Len(text) - 1) :
                   /\ text[i].k = "label" /\ text[i + 1].k \in {"code", "iso"}
                   /\ \A j \in 1..(i - 1) : ~(text[j].k = "label" /\ text[j + 1].k \in {"code", "iso"})) + 1].s
      ELSE fname.stem

\* the quantity and value sums of the lines a predicate picks
QtySum(lines, Pick(_)) == SumRange([i \in 1..Len(lines) |-> IF Pick(lines[i]) THEN lines[i].quantity ELSE 0], 1, Len(lines))

ValSum(lines, Pick(_)) == SumRange([i \in 1..Len(lines) |-> IF Pick(lines[i]) THEN lines[i].line_total ELSE 0], 1, Len(lines))

Dated(r) == r.invoice_date # NoDate

\* x is n/d rounded to the nearest integer
Nearest(x, n, d) == 2 * Abs(x * d - n) <= Abs(d)

\* C13: in the monthly rollup the months of the dated lines appear once each
\* in ascending order; qty_mom_pct (val_mom_pct) is null exactly in the first
\* row and in a row whose preceding row has total quantity (value) zero, and
\* is otherwise the change relative to the preceding row, to three decimals.
C13_MonthOverMonth ==
  pc = "done" =>
    /\ \A j, k \in 1..Len(monthly) :
         j < k => \/ monthly[j].invoice_month.y < monthly[k].invoice_month.y
                  \/ /\ monthly[j].invoice_month.y = monthly[k].invoice_month.y
                     /\ monthly[j].invoice_month.m < monthly[k].invoice_month.m
    /\ {monthly[j].invoice_month : j \in 1..Len(monthly)}
         = {[y |-> parsed_lines[i].invoice_date.y, m |-> parsed_lines[i].invoice_date.m] :
              i \in {x \in 1..Len(parsed_lines) : Dated(parsed_lines[x])}}
    /\ \A j \in 1..Len(monthly) :
         /\ monthly[j].qty_mom_pct.null <=> (j = 1 \/ monthly[j - 1].total_quantity = 0)
         /\ monthly[j].val_mom_pct.null <=> (j = 1 \/ monthly[j - 1].total_value = 0)
         /\ ~monthly[j].qty_mom_pct.null =>
              Nearest(monthly[j].qty_mom_pct.v,
                      1000 * (monthly[j].total_quantity - monthly[j - 1].total_quantity),
                      monthly[j - 1].total_quantity)
         /\ ~monthly[j].val_mom_pct.null =>
              Nearest(monthly[j].val_mom_pct.v,
                      1000 * (monthly[j].total_value - monthly[j - 1].total_value),
                      monthly[j - 1].total_value)

\* C13 witness: three months, the first with quantity and value zero, so that
\* the second row has null fields and the third has numbers
C13_Witness ==
  /\ pc = "done" /\ Len(monthly) = 3
  /\ monthly[1].total_quantity = 0 /\ monthly[1].total_value = 0
  /\ monthly[2].qty_mom_pct.null /\ monthly[2].val_mom_pct.null
  /\ ~monthly[3].qty_mom_pct.null /\ ~monthly[3].val_mom_pct.null

\* C14: every master row has avg_price 0 when its total_quantity is 0, and
\* total_value / total_quantity to the nearest cent otherwise; its totals are
\* those of the parsed lines of its code.
C14_AvgPrice ==
  pc = "done" =>
    \A j \in 1..Len(master) :
      LET r == master[j]
          Mine(x) == x.item_code = r.item_code
      IN /\ r.total_quantity = QtySum(parsed_lines, Mine)
         /\ r.total_value = ValSum(parsed_lines, Mine)
         /\ r.total_quantity = 0 => r.avg_price = 0
         /\ r.total_quantity # 0 =>
              /\ r.avg_price % 10 = 0
              /\ Nearest(r.avg_price \div 10, r.total_value, 10 * r.total_quantity)

\* C14 witness: one code whose quantities cancel while its value does not,
\* and one whose value does not divide by its quantity
C14_Witness ==
  /\ pc = "done"
  /\ \E j \in 1..Len(master) : master[j].total_quantity = 0 /\ master[j].total_value # 0
  /\ \E j \in 1..Len(master) : /\ master[j].total_quantity # 0
                               /\ master[j].avg_price * master[j].total_quantity # master[j].total_value

Chunks(table) == {c \in 1..Len(written) : written[c].table = table}

Limit(table) == IF table = "invoices" THEN 500 ELSE 1000

RowCount(table) == IF table = "invoices" THEN Len(invoices_rows) ELSE Len(parsed_lines)

IsPrefix(a, b) == Len(a) <= Len(b) /\ SubSeq(b, 1, Len(a)) = a

\* C16: writes happen only after the archive loop, invoices before items;
\* the batches of a table are consecutive, in order, of the chunk size (500
\* for invoices, 1000 for items) or, the last one, shorter; when ingest
\* returns with a store client every row is in exactly one batch; batches
\* written stay written, and after a failing write nothing more is written.
C16_ChunkedWrites ==
  /\ [](written # <<>> => (sb /\ pc \in {"upsert", "insert", "raised", "done"}))
  /\ [](\A c \in 1..Len(written) :
          LET w == written[c]
              earlier == {x \in Chunks(w.table) : x < c}
          IN /\ w.table \in {"invoices", "items"}
             /\ w.lo <= w.hi /\ w.hi <= RowCount(w.table)
             /\ w.hi - w.lo + 1 <= Limit(w.table)
             /\ (w.hi - w.lo + 1 = Limit(w.table) \/ w.hi = RowCount(w.table))
             /\ w.lo = IF earlier = {} THEN 1 ELSE written[c - 1].hi + 1
             /\ (earlier # {} => written[c - 1].table = w.table)
             /\ (w.table = "items" /\ Chunks("invoices") # {}) =>
                  \E x \in Chunks("invoices") : x < c /\ written[x].hi = Len(invoices_rows))
  /\ []((pc = "done" /\ sb) =>
          \A t \in {"invoices", "items"} :
            \A i \in 1..RowCount(t) :
              Cardinality({c \in Chunks(t) : written[c].lo <= i /\ i <= written[c].hi}) = 1)
  /\ [][IsPrefix(written, written')]_vars
  /\ [][pc = "raised" => written' = written]_vars

\* C16 witness: three batches of invoices and one of items are written, and
\* the second batch of items has failed
C16_Witness ==
  /\ pc = "raised" /\ Len(written) = 4
  /\ written[3].table = "invoices" /\ written[4].table = "items"
  /\ written[4].hi < Len(parsed_lines)

\* C17 (as claimed): invdate_guess returns the ISO date of the text when there
\* is one, else the slash-delimited date of the text normalised to ISO when
\* that yields a date, else the date of a _YYYYMMDD_ in the file name, else
\* the empty string.
C17_FirstRuleThatYieldsADate ==
  guess.date_set =>
    guess.date =
      IF \E i \in 1..Len(text) : text[i].k = "iso"
      THEN LET t == text[CHOOSE i \in 1..Len(text) : text[i].k = "iso" /\ \A j \in 1..(i - 1) : text[j].k # "iso"].dt
           IN [y |-> t.a, m |-> t.b, d |-> t.c]
      ELSE LET sl == {i \in 1..Len(text) : text[i].k = "slash"}
               t == IF sl = {} THEN NoText ELSE text[CHOOSE i \in sl : \A j \in sl : i <= j].dt
               yr == IF t.w = 2 THEN (IF t.c < 69 THEN 2000 + t.c ELSE 1900 + t.c) ELSE t.c
               ok == /\ t.form = "slash" /\ t.w \in {2, 4}
                     /\ t.a \in 1..12 /\ t.b >= 1
                     /\ t.b <= (CASE t.a \in {4, 6, 9, 11} -> 30
                                  [] t.a = 2 -> (IF (yr % 4 = 0 /\ yr % 100 # 0) \/ yr % 400 = 0 THEN 29 ELSE 28)
                                  [] OTHER -> 31)
           IN IF ok THEN [y |-> yr, m |-> t.a, d |-> t.b] ELSE fname.stamp

\* C18: a document whose normalisation result has no lines (the service
\* failed, returned none, or was not called) raises nothing and adds no errors
\* entry; its invoice number is the heuristic one; it adds no parsed_lines
\* entry and no invoice row; and the entry after it is processed.
C18_NoLinesDegradesQuietly ==
  \A p \in Pos :
    (Yields(p) /\ Out(p).doc.lines = <<>>) =>
      /\ ErrorsNaming(NameOf(p)) = {}
      /\ (files[p[1]].status = "failed_later" => p[2] < Len(files[p[1]].outs))
      /\ Out(p).doc.guess_no \in seen_invoices
      /\ \A k \in 1..Len(parsed_lines) : parsed_lines[k].file_name # NameOf(p)
      /\ \A k \in 1..Len(invoices_rows) : invoices_rows[k].file_name # NameOf(p)
      /\ (pc = "done" /\ p[2] < Len(files[p[1]].names)) => <<p[1], p[2] + 1>> \in Pos

\* C18 witness: the call ended after a document without lines, whose result
\* named another number, and the document after it contributed its lines
C18_Witness ==
  /\ pc = "done"
  /\ \E p \in Pos : /\ Yields(p) /\ Out(p).doc.lines = <<>> /\ Out(p).doc.ai_no = "A"
                    /\ <<p[1], p[2] + 1>> \in Pos
                    /\ LinesFrom(<<p[1], p[2] + 1>>) # <<>>

EveryLine(r) == TRUE

\* C19: the total_quantity of the master rows adds up to the quantity of all
\* parsed_lines; every item_code has exactly one master row; and the
\* total_quantity of the monthly rows adds up to the quantity of the dated
\* parsed_lines, the undated ones being in master only.
C19_RollupConservation ==
  pc = "done" =>
    /\ SumRange([j \in 1..Len(master) |-> master[j].total_quantity], 1, Len(master)) = QtySum(parsed_lines, EveryLine)
    /\ \A i \in 1..Len(parsed_lines) :
         Cardinality({j \in 1..Len(master) : master[j].item_code = parsed_lines[i].item_code}) = 1
    /\ \A j \in 1..Len(master) : \E i \in 1..Len(parsed_lines) : parsed_lines[i].item_code = master[j].item_code
    /\ SumRange([j \in 1..Len(monthly) |-> monthly[j].total_quantity], 1, Len(monthly)) = QtySum(parsed_lines, Dated)

\* C19 witness: a batch with two codes, a dated line and an undated line of
\* quantity other than zero
C19_Witness ==
  /\ pc = "done" /\ Len(master) = 2 /\ Len(monthly) >= 1
  /\ \E i \in 1..Len(parsed_lines) : ~Dated(parsed_lines[i]) /\ parsed_lines[i].quantity # 0

====
